---- MODULE Spec2Model ----
(***************************************************************************)
(* Verification model of nb_open_prescribing:                              *)
(*   util.py   RateLimiter           (specifications SpecRL, FairSpecRL)   *)
(*   model.py  LocationBoundaries    (specifications SpecLB, SpecLBReaders)*)
(*   api.py    OpenPrescribingHttpApi and model.py LocationSpend parsing   *)
(*                                   (specification SpecApi)               *)
(*   api.py    HttpApiDataProvider   (specification SpecApi)               *)
(*   ui.py     DrugSearchBox, LocationBoundariesMap and                    *)
(*             OpenPrescribingDataExplorer (specification SpecUI)          *)
(***************************************************************************)
EXTENDS Integers, Sequences, FiniteSets, TLC

(***************************************************************************)
(* Bounds of the model.                                                    *)
(***************************************************************************)
MaxTime == 2
MaxInvocations == 3
MaxDepth == 2
MaxFeatures == 2
MaxReads == 2
MaxBody == 2
MaxCounted == 3
MaxLayers == 2

Threads == {1, 2}

\* the constructor arguments tried: RateLimiter(calls=k, period=p)
CallsArgs == {-5, 1, 2}
PeriodArgs == {1, 2}

VARIABLES
    \* ---- util.py: RateLimiter ----
    callsArg,         \* the `calls` argument given to RateLimiter(...)
    calls,            \* self.calls
    period,           \* self.period
    number_of_calls,  \* self.number_of_calls
    last_reset,       \* self.last_reset
    lockOwner,        \* self._lock: owning thread, 0 when free
    lockCount,        \* self._lock: recursion level of the owner
    now,              \* the clock read by time()
    stack,            \* per thread: the wrapper activations, innermost last
    invoked,          \* number of wrapper invocations started
    log,              \* one entry per counted invocation, in counting order
    resets,           \* number of window resets performed
    execAt,           \* per clock value: wrapped-operation executions started then
    \* ---- model.py: LocationBoundaries and the structure it was built from ----
    heap,             \* feature objects: identity -> [code, name, geometry]
    srcCrs,           \* source["crs"]["properties"]["name"]
    srcFeatures,      \* source["features"]: identities of the feature objects
    fcType,           \* self.feature_collection["type"]
    fcCrs,            \* self.feature_collection["crs"]["properties"]["name"]
    fcFeatures,       \* self.feature_collection["features"]: identities
    mapKeys,          \* self._code_to_feature_mapping: keys in insertion order
    mapVal,           \* self._code_to_feature_mapping: key -> identity
    built,            \* what the constructor was given, as it was then
    yielded,          \* the sequences produced by the iterations made so far
    lastGet,          \* outcome of the last indexing by code
    \* ---- api.py: OpenPrescribingHttpApi and the remote service ----
    serverBody,       \* the JSON array the service answers spending queries with
    lastCall,         \* the last call made: its arguments, requests and outcome
    \* ---- ui.py: OpenPrescribingDataExplorer and DrugSearchBox ----
    text,             \* drug_selector.text.value
    valid,            \* drug_selector._valid
    options,          \* drug_selector.dropdown.options: the ids offered
    dropdownValue,    \* drug_selector.dropdown.value, <<>> for None
    shown,            \* the dropdown is among drug_selector.children
    locationCode,     \* map.get_location_code(), <<>> when nothing is selected
    searchDisabled,   \* search_button.disabled
    editedSinceSelect, \* the user edited the text after the last selection
    selectedLayer,    \* map._selected_layer.layer, NoLayer for None
    mapLayers,        \* the highlight layers among map.ipyleaflet_map.layers
    layersBuilt,      \* number of highlight layers constructed so far
    lastSelected,     \* the code given to the last select_location that returned
    statusMessage,    \* status_message.value
    plotterData,      \* spend_plotter._data
    plotterShown,     \* spend_plotter.layout.display is not "none"
    lastSearch        \* the last click of the search button: what it found and did

rlVars == <<callsArg, calls, period, number_of_calls, last_reset, lockOwner, lockCount,
            now, stack, invoked, log, resets, execAt>>

lbVars == <<heap, srcCrs, srcFeatures, fcType, fcCrs, fcFeatures, mapKeys,
            mapVal, built, yielded, lastGet>>

apiVars == <<serverBody, lastCall>>

\* the drug search box and the search button
boxVars == <<text, valid, options, dropdownValue, shown, editedSinceSelect>>

\* the highlight of the map
layerVars == <<locationCode, selectedLayer, mapLayers, layersBuilt,
               lastSelected>>

\* the status line, the plotter and the record of the last search
searchVars == <<statusMessage, plotterData, plotterShown, lastSearch>>

uiVars == <<boxVars, layerVars, searchDisabled, searchVars>>

vars == <<rlVars, lbVars, apiVars, uiVars>>

notRL == <<lbVars, apiVars, uiVars>>
notLB == <<rlVars, apiVars, uiVars>>
notApi == <<rlVars, lbVars, uiVars>>

\* what the handlers of the user interface leave alone: the other components
\* and, of the RateLimiter that wraps _change_handler, all but its counter,
\* its window start and the clock
notUI == <<lbVars, apiVars, callsArg, calls, period, lockOwner, lockCount,
           now, stack, invoked, log, resets, execAt>>

(***************************************************************************)
(* util.py: RateLimiter                                                    *)
(***************************************************************************)

\* a clamp whose floor is 0
ClampCallsAtZero(k) == IF k > 0 THEN k ELSE 0

\* RateLimiter.__init__, line 18: self.calls = max(1, int(calls))
ClampCalls(k) == IF k > 1 THEN k ELSE 1

\* an expiry test that needs more than `period` to have elapsed
WindowExpiredStrictly(t, lr, p) == p - (t - lr) < 0

\* wrapper, lines 38-39: elapsed = time() - last_reset; period - elapsed <= 0
WindowExpired(t, lr, p) == p - (t - lr) <= 0

\* a limiter that lets one invocation too many through
OverLimitOffByOne(n, c) == n > c + 1

\* wrapper, line 45: self.number_of_calls > self.calls
OverLimit(n, c) == n > c

\* a lock that never makes a thread wait
CanAcquireAlways(t) == TRUE

\* threading.RLock.acquire: free, or already owned by the caller
CanAcquire(t) == lockOwner = 0 \/ lockOwner = t

\* a 'with' block that keeps the lock when it is left by the early return
ExitWithLeakOnReturn(t, dropped) ==
    IF dropped
    THEN [owner |-> lockOwner, count |-> lockCount]
    ELSE IF lockCount = 1
         THEN [owner |-> 0, count |-> 0]
         ELSE [owner |-> lockOwner, count |-> lockCount - 1]

\* leaving 'with self._lock' (lines 36-46), by falling through or by the
\* 'return None' of line 46: RLock.release
ExitWith(t, dropped) ==
    IF lockCount = 1
    THEN [owner |-> 0, count |-> 0]
    ELSE [owner |-> lockOwner, count |-> lockCount - 1]

\* the components a specification does not exercise stay as constructed
ParkedLB ==
    /\ heap = <<>>
    /\ srcCrs = "EPSG:4326"
    /\ srcFeatures = <<>>
    /\ fcType = "FeatureCollection"
    /\ fcCrs = "EPSG:4326"
    /\ fcFeatures = <<>>
    /\ mapKeys = <<>>
    /\ mapVal = <<>>
    /\ built = [ids |-> <<>>, codes |-> <<>>,
                view |-> [crs |-> "EPSG:4326", features |-> <<>>, items |-> <<>>]]
    /\ yielded = <<>>
    /\ lastGet = [kind |-> "none"]

ParkedApi ==
    /\ serverBody = <<>>
    /\ lastCall = [method |-> "none"]

\* OpenPrescribingDataExplorer.__init__, ui.py lines 36-67, and
\* DrugSearchBox.__init__, lines 397-414
ParkedUI ==
    /\ text = <<>>
    /\ valid = FALSE
    /\ options = <<>>
    /\ dropdownValue = <<>>
    /\ shown = FALSE
    /\ locationCode = <<>>
    /\ searchDisabled = TRUE
    /\ editedSinceSelect = FALSE
    /\ selectedLayer = [id |-> 0, data |-> <<>>]
    /\ mapLayers = {}
    /\ layersBuilt = 0
    /\ lastSelected = <<>>
    /\ statusMessage = [kind |-> "", n |-> 0]
    /\ plotterData = <<>>
    /\ plotterShown = FALSE
    /\ lastSearch = [clicked |-> FALSE, location |-> <<>>, drug |-> <<>>,
                     called |-> FALSE, chemical |-> <<>>, org |-> <<>>]

ParkedRL ==
    /\ callsArg = 1
    /\ calls = 1
    /\ period = 1
    /\ number_of_calls = 0
    /\ now = 0
    /\ last_reset = 0
    /\ lockOwner = 0
    /\ lockCount = 0
    /\ stack = [t \in Threads |-> <<>>]
    /\ invoked = 0
    /\ log = <<>>
    /\ resets = 0
    /\ execAt = [s \in 0 .. MaxTime |-> 0]

Top(t) == stack[t][Len(stack[t])]
TopPc(t) == IF stack[t] = <<>> THEN "idle" ELSE Top(t).pc
SetTop(t, f) == [stack EXCEPT ![t] = [@ EXCEPT ![Len(@)] = f]]
Pop(t) == [stack EXCEPT ![t] = SubSeq(@, 1, Len(@) - 1)]
Push(t, f) == [stack EXCEPT ![t] = Append(@, f)]

NewFrame == [pc |-> "lock", id |-> 0]

\* RateLimiter.__init__(calls=k, period=p) at clock value 0
InitRL ==
    /\ ParkedLB
    /\ ParkedApi
    /\ ParkedUI
    /\ callsArg \in CallsArgs
    /\ calls = ClampCalls(callsArg)
    /\ period \in PeriodArgs
    /\ number_of_calls = 0
    /\ now = 0
    /\ last_reset = now
    /\ lockOwner = 0
    /\ lockCount = 0
    /\ stack = [t \in Threads |-> <<>>]
    /\ invoked = 0
    /\ log = <<>>
    /\ resets = 0
    /\ execAt = [s \in 0 .. MaxTime |-> 0]

\* the clock advances
Tick ==
    /\ now < MaxTime
    /\ now' = now + 1
    /\ UNCHANGED notRL
    /\ UNCHANGED <<callsArg, calls, period, number_of_calls, last_reset, lockOwner,
                   lockCount, stack, invoked, log, resets, execAt>>

\* a thread calls the wrapped operation: wrapper(*args, **kwargs) is entered
Invoke(t) ==
    /\ stack[t] = <<>>
    /\ invoked < MaxInvocations
    /\ stack' = Push(t, NewFrame)
    /\ invoked' = invoked + 1
    /\ UNCHANGED notRL
    /\ UNCHANGED <<callsArg, calls, period, number_of_calls, last_reset, lockOwner,
                   lockCount, now, log, resets, execAt>>

\* the wrapped operation, while it runs, calls the wrapper again
Reenter(t) ==
    /\ TopPc(t) = "body"
    /\ Len(stack[t]) < MaxDepth
    /\ invoked < MaxInvocations
    /\ stack' = Push(t, NewFrame)
    /\ invoked' = invoked + 1
    /\ UNCHANGED notRL
    /\ UNCHANGED <<callsArg, calls, period, number_of_calls, last_reset, lockOwner,
                   lockCount, now, log, resets, execAt>>

\* line 36: with self._lock
Acquire(t) ==
    /\ TopPc(t) = "lock"
    /\ CanAcquire(t)
    /\ lockOwner' = t
    /\ lockCount' = lockCount + 1
    /\ stack' = SetTop(t, [Top(t) EXCEPT !.pc = "check"])
    /\ UNCHANGED notRL
    /\ UNCHANGED <<callsArg, calls, period, number_of_calls, last_reset, now, invoked,
                   log, resets, execAt>>

\* lines 38-40: the expiry test and, when expired, number_of_calls = 0
Check(t) ==
    /\ TopPc(t) = "check"
    /\ IF WindowExpired(now, last_reset, period)
       THEN /\ number_of_calls' = 0
            /\ stack' = SetTop(t, [Top(t) EXCEPT !.pc = "reset"])
       ELSE /\ number_of_calls' = number_of_calls
            /\ stack' = SetTop(t, [Top(t) EXCEPT !.pc = "count"])
    /\ UNCHANGED notRL
    /\ UNCHANGED <<callsArg, calls, period, last_reset, lockOwner, lockCount, now,
                   invoked, log, resets, execAt>>

\* line 41: self.last_reset = time(), a second reading of the clock
Reset(t) ==
    /\ TopPc(t) = "reset"
    /\ last_reset' = now
    /\ resets' = resets + 1
    /\ stack' = SetTop(t, [Top(t) EXCEPT !.pc = "count"])
    /\ UNCHANGED notRL
    /\ UNCHANGED <<callsArg, calls, period, number_of_calls, lockOwner, lockCount, now,
                   invoked, log, execAt>>

\* a limiter whose dropped invocations restart the counting window
CountRestartingWindowOnDrop(t) ==
    /\ TopPc(t) = "count"
    /\ number_of_calls' = number_of_calls + 1
    /\ LET n == number_of_calls + 1
           dropped == OverLimit(n, calls)
           lk == ExitWith(t, dropped)
           entry == [window |-> resets, count |-> n,
                     admitted |-> ~dropped, ran |-> FALSE,
                     ret |-> IF dropped THEN "None" ELSE "pending"]
       IN /\ log' = Append(log, entry)
          /\ lockOwner' = lk.owner
          /\ lockCount' = lk.count
          /\ last_reset' = IF dropped THEN now ELSE last_reset
          /\ stack' = IF dropped
                      THEN Pop(t)
                      ELSE SetTop(t, [pc |-> "func", id |-> Len(log) + 1])
    /\ UNCHANGED notRL
    /\ UNCHANGED <<callsArg, calls, period, now, invoked, resets, execAt>>

\* lines 43-46: increment, compare, and leave the 'with' block either by
\* 'return None' or towards the call of line 48
Count(t) ==
    /\ TopPc(t) = "count"
    /\ number_of_calls' = number_of_calls + 1
    /\ LET n == number_of_calls + 1
           dropped == OverLimit(n, calls)
           lk == ExitWith(t, dropped)
           entry == [window |-> resets, count |-> n,
                     admitted |-> ~dropped, ran |-> FALSE,
                     ret |-> IF dropped THEN "None" ELSE "pending"]
       IN /\ log' = Append(log, entry)
          /\ lockOwner' = lk.owner
          /\ lockCount' = lk.count
          /\ stack' = IF dropped
                      THEN Pop(t)
                      ELSE SetTop(t, [pc |-> "func", id |-> Len(log) + 1])
    /\ UNCHANGED notRL
    /\ UNCHANGED <<callsArg, calls, period, last_reset, now, invoked, resets, execAt>>

\* line 48: func(*args, **kwargs) starts to run
FuncStart(t) ==
    /\ TopPc(t) = "func"
    /\ stack' = SetTop(t, [Top(t) EXCEPT !.pc = "body"])
    /\ log' = [log EXCEPT ![Top(t).id].ran = TRUE]
    /\ execAt' = [execAt EXCEPT ![now] = @ + 1]
    /\ UNCHANGED notRL
    /\ UNCHANGED <<callsArg, calls, period, number_of_calls, last_reset, lockOwner,
                   lockCount, now, invoked, resets>>

\* line 48: func returns and the wrapper returns its result
FuncReturn(t) ==
    /\ TopPc(t) = "body"
    /\ log' = [log EXCEPT ![Top(t).id].ret = "Result"]
    /\ stack' = Pop(t)
    /\ UNCHANGED notRL
    /\ UNCHANGED <<callsArg, calls, period, number_of_calls, last_reset, lockOwner,
                   lockCount, now, invoked, resets, execAt>>

ThreadStep(t) ==
    \/ Acquire(t)
    \/ Check(t)
    \/ Reset(t)
    \/ Count(t)
    \/ FuncStart(t)
    \/ FuncReturn(t)

NextRL ==
    \/ Tick
    \/ \E t \in Threads : Invoke(t)
    \/ \E t \in Threads : Reenter(t)
    \/ \E t \in Threads : ThreadStep(t)

SpecRL == InitRL /\ [][NextRL]_vars

\* every thread that can take a step of the wrapper eventually takes it, and
\* the clock keeps running
FairSpecRL ==
    /\ InitRL
    /\ [][NextRL]_vars
    /\ \A t \in Threads : WF_vars(ThreadStep(t))

(***************************************************************************)
(* Properties of the RateLimiter                                           *)
(***************************************************************************)
Min(a, b) == IF a < b THEN a ELSE b

AllIdle == \A t \in Threads : stack[t] = <<>>

Ran == {i \in 1 .. Len(log) : log[i].ran}

RECURSIVE ExecIn(_, _)
\* number of executions of the wrapped operation started at clock values a..b
ExecIn(a, b) ==
    IF a > b \/ a > MaxTime THEN 0 ELSE execAt[a] + ExecIn(a + 1, b)

\* C2: in every interval of length `period`, wherever it starts, the wrapped
\* operation is executed at most `calls` times.
RollingWindowLimit ==
    \A s \in 0 .. MaxTime : ExecIn(s, s + period - 1) <= calls

\* C5: while `period` has not elapsed since construction, the invocations
\* counted so far are admitted exactly when they are among the first `calls`,
\* only admitted ones execute the wrapped operation, and once every
\* invocation has returned exactly min(n, calls) of the n invocations ran it.
FirstWindowAdmitsFirstCalls ==
    now < period =>
        /\ resets = 0
        /\ \A i \in 1 .. Len(log) : log[i].admitted = (i <= calls)
        /\ \A i \in Ran : i <= calls
        /\ AllIdle => /\ Len(log) = invoked
                      /\ Cardinality(Ran) = Min(invoked, calls)

\* C5 witness: more than `calls` invocations were made and have all returned
\* within the first window, and exactly `calls` of them ran the operation.
FirstWindowOverBudgetDone ==
    /\ now < period
    /\ AllIdle
    /\ invoked > calls
    /\ Cardinality(Ran) = calls

InCriticalSection(t) == TopPc(t) \in {"check", "reset", "count"}

\* C6: the lock is held only inside the check-reset-increment sequence, never
\* while the wrapped operation runs, and every invocation of every thread
\* eventually returns, also when the wrapped operation re-enters the limiter
\* or another thread invokes it meanwhile.
LockReleasedBeforeCallAndNoDeadlock ==
    /\ [](\A t \in Threads : lockOwner = t => InCriticalSection(t))
    /\ [](lockOwner = 0 <=> lockCount = 0)
    /\ \A t \in Threads : (stack[t] # <<>>) ~> (stack[t] = <<>>)

\* C6 witness: one thread is running the wrapped operation while another
\* thread, re-entering the limiter from inside its own wrapped operation,
\* holds the lock.
ReentryHoldsLockDuringOtherCall ==
    \E t, u \in Threads :
        /\ t # u
        /\ TopPc(t) = "body"
        /\ Len(stack[u]) = 2
        /\ stack[u][1].pc = "body"
        /\ lockOwner = u

\* C7: an invocation whose post-increment counter exceeds `calls` has
\* returned None without running the wrapped operation.
DroppedInvocationReturnsNone ==
    \A i \in 1 .. Len(log) :
        log[i].count > calls =>
            /\ ~log[i].ran
            /\ log[i].ret = "None"
            /\ \A t \in Threads : \A j \in 1 .. Len(stack[t]) : stack[t][j].id # i

\* C7 witness: some invocation was counted beyond the limit, while an admitted
\* one ran the wrapped operation and returned its result.
SomeInvocationDropped ==
    /\ \E i \in 1 .. Len(log) : log[i].count > calls /\ log[i].ret = "None"
    /\ \E i \in 1 .. Len(log) : log[i].ret = "Result"

\* C16: the effective limit is max(1, k) for the integer k given as `calls`:
\* never below 1, 1 for k = -5, and k itself when k >= 1; it stays so while
\* the limiter is used.
EffectiveLimitIsClamped ==
    /\ calls >= 1
    /\ callsArg >= 1 => calls = callsArg
    /\ callsArg < 1 => calls = 1

\* C16 witness: a limiter built with calls=-5 has admitted one invocation
\* and dropped the next.
NegativeCallsLimitsToOne ==
    /\ callsArg = -5
    /\ calls = 1
    /\ Len(log) >= 2
    /\ log[1].admitted
    /\ ~log[2].admitted

\* the invocations counted in window w, in counting order
InWindow(w) == {i \in 1 .. Len(log) : log[i].window = w}

\* C18: an invocation that reads the clock when now - last_reset >= period
\* zeroes the counter and restarts the window before it counts itself, so its
\* post-increment counter is 1 and it is admitted whatever was counted in the
\* expired window; one that reads the clock when now - last_reset < period
\* resets nothing.
ExpiredWindowResetsBeforeCounting ==
    [][\A t \in Threads :
          /\ (Check(t) /\ now - last_reset >= period) =>
                /\ number_of_calls' = 0
                /\ TopPc(t)' = "reset"
          /\ (Check(t) /\ now - last_reset < period) =>
                /\ number_of_calls' = number_of_calls
                /\ TopPc(t)' = "count"
          /\ Reset(t) =>
                /\ number_of_calls = 0
                /\ last_reset' = now
                /\ TopPc(t)' = "count"
          /\ Count(t) =>
                /\ UNCHANGED <<last_reset, resets>>
                /\ InWindow(resets) = {} =>
                      /\ number_of_calls = 0
                      /\ log'[Len(log')].count = 1
                      /\ log'[Len(log')].admitted]_vars

\* C18 witness: the budget of the first window was used up and over-asked,
\* and an invocation after its expiry was counted as 1 and admitted.
InvocationAfterExpiryAdmitted ==
    /\ resets >= 1
    /\ \E i \in InWindow(0) : ~log[i].admitted
    /\ \E i \in InWindow(resets) : log[i].count = 1 /\ log[i].admitted

\* C25: a dropped invocation increments number_of_calls and leaves
\* last_reset, calls and period as they were (it reset nothing: others were
\* counted before it in its window), last_reset moves only at line 41 of an
\* invocation that found the window expired, and so, whatever was dropped in
\* a window, the invocation that reads the clock at or after
\* last_reset + period resets, is counted as 1 and is admitted to line 48.
DroppedInvocationsKeepWindow ==
    [][/\ UNCHANGED <<calls, period>>
       /\ (last_reset' # last_reset) => \E t \in Threads : TopPc(t) = "reset"
       /\ \A t \in Threads :
             /\ (Count(t) /\ ~log'[Len(log')].admitted) =>
                   /\ number_of_calls' = number_of_calls + 1
                   /\ UNCHANGED <<last_reset, resets>>
                   /\ InWindow(resets) # {}
             /\ (Check(t) /\ now >= last_reset + period
                          /\ \E i \in InWindow(resets) : ~log[i].admitted) =>
                   /\ number_of_calls' = 0
                   /\ TopPc(t)' = "reset"
             /\ (Count(t) /\ InWindow(resets) = {} /\ resets >= 1
                          /\ \E i \in InWindow(resets - 1) : ~log[i].admitted) =>
                   /\ log'[Len(log')].count = 1
                   /\ log'[Len(log')].admitted]_vars

\* C25 witness: an invocation was dropped in the first window, the window
\* was restarted once, and the invocation that restarted it ran the function.
FirstInvocationAfterDropsExecuted ==
    /\ resets = 1
    /\ \E i \in InWindow(0) : ~log[i].admitted /\ log[i].ret = "None"
    /\ \E i \in InWindow(1) : log[i].count = 1 /\ log[i].ran

\* C19: under every interleaving of the threads the counting is atomic: the
\* i-th invocation counted in a window sees the counter i, so no increment
\* is lost; at most `calls` invocations of one window are admitted; and
\* number_of_calls is the number of invocations counted since the counter
\* was last zeroed.
CountingAtomicAcrossThreads ==
    /\ \A w \in 0 .. resets :
          /\ Cardinality({i \in InWindow(w) : log[i].admitted}) <= calls
          /\ \A i \in InWindow(w) :
                log[i].count = Cardinality({j \in InWindow(w) : j <= i})
    /\ IF \E t \in Threads : TopPc(t) = "reset"
       THEN number_of_calls = 0
       ELSE number_of_calls = Cardinality(InWindow(resets))
    /\ Cardinality({t \in Threads : InCriticalSection(t)}) <= 1

\* C19 witness: one thread waits for the lock while another is between the
\* expiry test and the increment, the budget of the window being used up.
ThreadWaitsWhileOtherCounts ==
    \E t, u \in Threads :
        /\ t # u
        /\ TopPc(t) = "lock"
        /\ TopPc(u) = "count"
        /\ Len(log) >= 1
        /\ number_of_calls >= calls

(***************************************************************************)
(* model.py: LocationBoundaries                                            *)
(***************************************************************************)
Codes == {"A", "B"}
Geometries == {"g0", "g1"}
CrsNames == {"EPSG:4326", "EPSG:27700"}

\* the dict comprehension of lines 119-121: keys in order of first insertion
RECURSIVE KeysOf(_, _)
KeysOf(ids, h) ==
    IF ids = <<>>
    THEN <<>>
    ELSE LET front == KeysOf(SubSeq(ids, 1, Len(ids) - 1), h)
             c == h[ids[Len(ids)]].code
         IN IF \E j \in 1 .. Len(front) : front[j] = c
            THEN front
            ELSE Append(front, c)

\* the dict comprehension of lines 119-121: a later feature with the same
\* code replaces the earlier one
ValOf(ids, h) ==
    [c \in {h[ids[i]].code : i \in 1 .. Len(ids)} |->
        ids[CHOOSE i \in 1 .. Len(ids) :
                /\ h[ids[i]].code = c
                /\ \A j \in (i + 1) .. Len(ids) : h[ids[j]].code # c]]

\* LocationBoundaries.crs, lines 123-126
Crs == fcCrs

\* a features list in the opposite order
FeaturesReversed ==
    [i \in 1 .. Len(mapKeys) |-> mapVal[mapKeys[Len(mapKeys) + 1 - i]]]

\* LocationBoundaries.features, lines 128-131: a new list of the mapped
\* feature objects
Features == [i \in 1 .. Len(mapKeys) |-> mapVal[mapKeys[i]]]

\* LocationBoundaries.feature_collection_from_code, lines 133-144
FeatureCollectionFromCode(c) ==
    IF c \in DOMAIN mapVal
    THEN [kind |-> "ok", code |-> c, type |-> fcType, crs |-> fcCrs,
          features |-> <<mapVal[c]>>, featureCode |-> heap[mapVal[c]].code]
    ELSE [kind |-> "KeyError", code |-> c]

\* what crs, features and indexing by every key return, by value
View ==
    [crs |-> Crs,
     features |-> [i \in 1 .. Len(Features) |-> heap[Features[i]]],
     items |-> [c \in DOMAIN mapVal |->
                   heap[FeatureCollectionFromCode(c).features[1]]]]

\* LocationBoundaries.__init__(source), lines 116-121, for a source with n
\* features: objects 1..n are the source's features, n+1..2n their deep copies
InitLB ==
    /\ ParkedRL
    /\ ParkedApi
    /\ ParkedUI
    /\ \E n \in 0 .. MaxFeatures :
       \E cs \in [1 .. n -> Codes] :
          /\ heap = [i \in 1 .. 2 * n |->
                        [code |-> cs[((i - 1) % n) + 1], geometry |-> "g0"]]
          /\ srcFeatures = [i \in 1 .. n |-> i]
          /\ fcFeatures = [i \in 1 .. n |-> n + i]
    /\ srcCrs = "EPSG:4326"
    /\ fcType = "FeatureCollection"
    /\ fcCrs = srcCrs
    /\ mapKeys = KeysOf(srcFeatures, heap)
    /\ mapVal = ValOf(srcFeatures, heap)
    /\ built = [ids |-> srcFeatures,
                codes |-> [i \in 1 .. Len(srcFeatures) |-> heap[srcFeatures[i]].code],
                view |-> View]
    /\ yielded = <<>>
    /\ lastGet = [kind |-> "none"]

\* the caller changes source["crs"]["properties"]["name"]
SrcSetCrs(c) ==
    /\ srcCrs' = c
    /\ UNCHANGED notLB
    /\ UNCHANGED <<heap, srcFeatures, fcType, fcCrs, fcFeatures, mapKeys,
                   mapVal, built, yielded, lastGet>>

\* the caller removes the last element of source["features"]
SrcPopFeature ==
    /\ srcFeatures # <<>>
    /\ srcFeatures' = SubSeq(srcFeatures, 1, Len(srcFeatures) - 1)
    /\ UNCHANGED notLB
    /\ UNCHANGED <<heap, srcCrs, fcType, fcCrs, fcFeatures, mapKeys, mapVal,
                   built, yielded, lastGet>>

\* the caller assigns properties["code"] of a feature of the source
SrcSetFeatureCode(id, c) ==
    /\ heap' = [heap EXCEPT ![id].code = c]
    /\ UNCHANGED notLB
    /\ UNCHANGED <<srcCrs, srcFeatures, fcType, fcCrs, fcFeatures, mapKeys,
                   mapVal, built, yielded, lastGet>>

\* the caller assigns the geometry of a feature of the source
SrcSetFeatureGeometry(id, g) ==
    /\ heap' = [heap EXCEPT ![id].geometry = g]
    /\ UNCHANGED notLB
    /\ UNCHANGED <<srcCrs, srcFeatures, fcType, fcCrs, fcFeatures, mapKeys,
                   mapVal, built, yielded, lastGet>>

\* LocationBoundaries.__iter__, lines 149-150, consumed to the end
Iterate ==
    /\ Len(yielded) < MaxReads
    /\ yielded' = Append(yielded, Features)
    /\ UNCHANGED notLB
    /\ UNCHANGED <<heap, srcCrs, srcFeatures, fcType, fcCrs, fcFeatures,
                   mapKeys, mapVal, built, lastGet>>

\* LocationBoundaries.__getitem__(c), lines 146-147
GetItem(c) ==
    /\ lastGet' = FeatureCollectionFromCode(c)
    /\ UNCHANGED notLB
    /\ UNCHANGED <<heap, srcCrs, srcFeatures, fcType, fcCrs, fcFeatures,
                   mapKeys, mapVal, built, yielded>>

NextLB ==
    \/ \E c \in CrsNames : SrcSetCrs(c)
    \/ SrcPopFeature
    \/ \E id \in 1 .. Len(built.ids) : \E c \in Codes : SrcSetFeatureCode(id, c)
    \/ \E id \in 1 .. Len(built.ids) : \E g \in Geometries : SrcSetFeatureGeometry(id, g)
    \/ Iterate
    \/ \E c \in Codes : GetItem(c)

SpecLB == InitLB /\ [][NextLB]_vars

\* the feature objects that features, iteration or indexing have handed out
ReturnedFeatures ==
    UNION {{yielded[k][i] : i \in 1 .. Len(yielded[k])} : k \in 1 .. Len(yielded)}
        \cup (IF lastGet.kind = "ok"
              THEN {lastGet.features[i] : i \in 1 .. Len(lastGet.features)}
              ELSE {})

\* a reader assigns the geometry of a feature it was handed: lines 131 and
\* 143 hand out the mapped feature objects themselves
ReturnedFeatureSetGeometry(id, g) ==
    /\ id \in ReturnedFeatures
    /\ heap' = [heap EXCEPT ![id].geometry = g]
    /\ UNCHANGED notLB
    /\ UNCHANGED <<srcCrs, srcFeatures, fcType, fcCrs, fcFeatures, mapKeys,
                   mapVal, built, yielded, lastGet>>

\* a reader assigns ["crs"]["properties"]["name"] of a collection that
\* indexing returned: line 142 puts self.feature_collection["crs"] itself
\* into the returned collection
ReturnedCrsSetName(c) ==
    /\ lastGet.kind = "ok"
    /\ fcCrs' = c
    /\ UNCHANGED notLB
    /\ UNCHANGED <<heap, srcCrs, srcFeatures, fcType, fcFeatures, mapKeys,
                   mapVal, built, yielded, lastGet>>

\* a reader removes the first element of a list that `features` returned:
\* line 131 builds a new list at every call
ReturnedListPop(k) ==
    /\ k \in 1 .. Len(yielded)
    /\ yielded[k] # <<>>
    /\ yielded' = [yielded EXCEPT ![k] = Tail(@)]
    /\ UNCHANGED notLB
    /\ UNCHANGED <<heap, srcCrs, srcFeatures, fcType, fcCrs, fcFeatures,
                   mapKeys, mapVal, built, lastGet>>

\* readers that share one LocationBoundaries whose source nobody touches
NextLBReaders ==
    \/ Iterate
    \/ \E c \in Codes : GetItem(c)
    \/ \E id \in 1 .. 2 * MaxFeatures : \E g \in Geometries :
          ReturnedFeatureSetGeometry(id, g)
    \/ \E c \in CrsNames : ReturnedCrsSetName(c)
    \/ \E k \in 1 .. MaxReads : ReturnedListPop(k)

SpecLBReaders == InitLB /\ [][NextLBReaders]_vars

(***************************************************************************)
(* Properties of LocationBoundaries                                        *)
(***************************************************************************)

\* C3: after construction no mutation of the source structure changes what
\* crs, features, iteration or indexing by code return.
SourceMutationInvisible == View = built.view

\* C4 as stated: every iteration yields exactly the N
\* features of the input list, in the order of the input list.
IterationYieldsEveryInputFeature ==
    \A k \in 1 .. Len(yielded) :
        /\ Len(yielded[k]) = Len(built.ids)
        /\ yielded[k] = built.ids

BuiltCodesDistinct ==
    \A i, j \in 1 .. Len(built.codes) :
        i # j => built.codes[i] # built.codes[j]

\* C4 amended: when the codes of the N input features are pairwise distinct,
\* every iteration, and `features`, yields exactly the N feature objects of
\* the input list as it was at construction, in that order, each time.
IterationYieldsEveryDistinctInputFeature ==
    BuiltCodesDistinct =>
        /\ Len(Features) = Len(built.ids)
        /\ Features = built.ids
        /\ \A k \in 1 .. Len(yielded) :
              /\ Len(yielded[k]) = Len(built.ids)
              /\ yielded[k] = built.ids

\* C4 witness: a collection of two features with distinct codes has been
\* iterated twice, the source list having been shortened meanwhile.
TwoFeaturesIteratedTwice ==
    /\ BuiltCodesDistinct
    /\ Len(built.ids) = 2
    /\ Len(yielded) = 2
    /\ srcFeatures # built.ids

\* C10: indexing by a code of the collection returns a collection with the
\* type and crs of the whole and exactly one feature, whose properties.code is
\* the requested code.
IndexReturnsFeatureOfRequestedCode ==
    /\ \A i \in 1 .. Len(mapKeys) :
          FeatureCollectionFromCode(mapKeys[i]).kind = "ok"
    /\ lastGet.kind = "ok" =>
          /\ lastGet.type = fcType
          /\ lastGet.crs = fcCrs
          /\ Len(lastGet.features) = 1
          /\ lastGet.featureCode = lastGet.code

\* some feature of the collection has properties.code = c
Carried(c) == \E i \in 1 .. Len(Features) : heap[Features[i]].code = c

\* C11: indexing by a code that no feature of the collection carries fails
\* with KeyError, returns no collection, and leaves crs, features and every
\* indexing result as they were.
AbsentCodeNotFound ==
    [][\A c \in Codes :
          (GetItem(c) /\ ~Carried(c)) =>
              /\ lastGet'.kind = "KeyError"
              /\ View' = View]_vars

\* what the LocationBoundaries object holds
Internal == <<heap, fcType, fcCrs, fcFeatures, mapKeys, mapVal>>

\* C23: no call of features, iteration or indexing changes the collection,
\* and no mutation of a value they returned (a feature, the crs object, the
\* returned list) changes what crs, features, iteration and indexing return
\* afterwards.
AccessorsExposeNoInternalState ==
    [][/\ (Iterate \/ \E c \in Codes : GetItem(c)) =>
             /\ UNCHANGED Internal
             /\ View' = View
       /\ ( \/ \E id \in 1 .. 2 * MaxFeatures : \E g \in Geometries :
                  ReturnedFeatureSetGeometry(id, g)
            \/ \E c \in CrsNames : ReturnedCrsSetName(c)
            \/ \E k \in 1 .. MaxReads : ReturnedListPop(k) ) =>
             View' = View]_vars

(***************************************************************************)
(* model.py: LocationSpend.from_dict and datetime.strptime(.., "%Y-%m-%d") *)
(* Text is a sequence of one-character strings.                            *)
(***************************************************************************)
Digits == {"0", "1", "2", "3", "4", "5", "6", "7", "8", "9"}
NonZeroDigits == Digits \ {"0"}

DigitVal(c) ==
    CASE c = "0" -> 0 [] c = "1" -> 1 [] c = "2" -> 2 [] c = "3" -> 3
      [] c = "4" -> 4 [] c = "5" -> 5 [] c = "6" -> 6 [] c = "7" -> 7
      [] c = "8" -> 8 [] c = "9" -> 9

RECURSIVE Num(_)
\* int() of a run of digits, leading spaces ignored
Num(t) ==
    IF t = <<>> THEN 0
    ELSE IF t[Len(t)] = " " THEN 0
    ELSE 10 * Num(SubSeq(t, 1, Len(t) - 1)) + DigitVal(t[Len(t)])

\* the character at position i, or the empty string past the end
At(t, i) == IF i >= 1 /\ i <= Len(t) THEN t[i] ELSE ""

\* %Y-: (?P<Y>\d\d\d\d) followed by the literal '-'
YearMatches(t) ==
    /\ \A i \in 1 .. 4 : At(t, i) \in Digits
    /\ At(t, 5) = "-"

\* a month directive that accepts only the two-digit forms
MonthLenTwoDigitsOnly(t) ==
    IF At(t, 6) = "1" /\ At(t, 7) \in {"0", "1", "2"} /\ At(t, 8) = "-" THEN 2
    ELSE IF At(t, 6) = "0" /\ At(t, 7) \in NonZeroDigits /\ At(t, 8) = "-" THEN 2
    ELSE 0

\* %m-: (?P<m>1[0-2]|0[1-9]|[1-9]) followed by the literal '-'; the length
\* of the month text, 0 when nothing matches
MonthLen(t) ==
    IF At(t, 6) = "1" /\ At(t, 7) \in {"0", "1", "2"} /\ At(t, 8) = "-" THEN 2
    ELSE IF At(t, 6) = "0" /\ At(t, 7) \in NonZeroDigits /\ At(t, 8) = "-" THEN 2
    ELSE IF At(t, 6) \in NonZeroDigits /\ At(t, 7) = "-" THEN 1
    ELSE 0

\* %d: (?P<d>3[0-1]|[1-2]\d|0[1-9]|[1-9]| [1-9]) at position p; the length of
\* the day text, 0 when nothing matches
DayLen(t, p) ==
    IF At(t, p) = "3" /\ At(t, p + 1) \in {"0", "1"} THEN 2
    ELSE IF At(t, p) \in {"1", "2"} /\ At(t, p + 1) \in Digits THEN 2
    ELSE IF At(t, p) = "0" /\ At(t, p + 1) \in NonZeroDigits THEN 2
    ELSE IF At(t, p) \in NonZeroDigits THEN 1
    ELSE IF At(t, p) = " " /\ At(t, p + 1) \in NonZeroDigits THEN 2
    ELSE 0

IsLeap(y) == (y % 4 = 0 /\ y % 100 # 0) \/ y % 400 = 0

DaysInMonth(y, m) ==
    IF m = 2 THEN (IF IsLeap(y) THEN 29 ELSE 28)
    ELSE IF m \in {4, 6, 9, 11} THEN 30
    ELSE 31

ValueError == [ok |-> FALSE, error |-> "ValueError"]

\* datetime.strptime(t, "%Y-%m-%d").date(), line 31: the pattern must match
\* at the start, nothing may remain after it, and the numbers must be a date
Strptime(t) ==
    IF ~YearMatches(t) \/ MonthLen(t) = 0 THEN ValueError
    ELSE LET ml == MonthLen(t)
             dp == 6 + ml + 1
             dl == DayLen(t, dp)
         IN IF dl = 0 THEN ValueError
            ELSE IF dp + dl - 1 # Len(t) THEN ValueError
            ELSE LET y == Num(SubSeq(t, 1, 4))
                     m == Num(SubSeq(t, 6, 5 + ml))
                     d == IF At(t, dp) = " "
                          THEN Num(SubSeq(t, dp + 1, dp + dl - 1))
                          ELSE Num(SubSeq(t, dp, dp + dl - 1))
                 IN IF y < 1 \/ d > DaysInMonth(y, m) THEN ValueError
                    ELSE [ok |-> TRUE,
                          date |-> [year |-> y, month |-> m, day |-> d]]

NoResult == [kind |-> "none"]

\* a from_dict that stores the cost in the quantity field
FromDictCostAsQuantity(data) ==
    LET r == Strptime(data.date)
    IN IF r.ok
       THEN [kind |-> "LocationSpend", raised |-> "none",
             value |-> [items |-> data.items,
                        quantity |-> data.actual_cost,
                        actual_cost |-> data.actual_cost,
                        date |-> r.date,
                        row_id |-> data.row_id,
                        row_name |-> data.row_name]]
       ELSE [kind |-> "none", raised |-> r.error]

\* LocationSpend.from_dict(data), lines 25-34
FromDict(data) ==
    LET r == Strptime(data.date)
    IN IF r.ok
       THEN [kind |-> "LocationSpend", raised |-> "none",
             value |-> [items |-> data.items,
                        quantity |-> data.quantity,
                        actual_cost |-> data.actual_cost,
                        date |-> r.date,
                        row_id |-> data.row_id,
                        row_name |-> data.row_name]]
       ELSE [kind |-> "none", raised |-> r.error]

\* a conversion of the array that leaves out the elements that fail
SpendingFromJsonSkippingFailures(body) ==
    LET RECURSIVE Keep(_)
        Keep(b) ==
            IF b = <<>> THEN <<>>
            ELSE IF FromDict(b[1]).raised = "none"
                 THEN <<FromDict(b[1]).value>> \o Keep(Tail(b))
                 ELSE Keep(Tail(b))
    IN [kind |-> "list", raised |-> "none", value |-> Keep(body)]

\* [LocationSpend.from_dict(x) for x in response.json()], api.py line 63:
\* the first failing element ends the whole comprehension
SpendingFromJson(body) ==
    IF \E i \in 1 .. Len(body) : FromDict(body[i]).raised # "none"
    THEN LET i == CHOOSE i \in 1 .. Len(body) :
                      /\ FromDict(body[i]).raised # "none"
                      /\ \A j \in 1 .. (i - 1) : FromDict(body[j]).raised = "none"
         IN [kind |-> "none", raised |-> FromDict(body[i]).raised]
    ELSE [kind |-> "list", raised |-> "none",
          value |-> [i \in 1 .. Len(body) |-> FromDict(body[i]).value]]

Y2022 == <<"2", "0", "2", "2">>

\* the date texts the service may send
DateTexts ==
    { Y2022 \o <<"-", "0", "1", "-", "0", "1">>,
      <<"2", "0", "2", "4", "-", "0", "2", "-", "2", "9">>,
      Y2022 \o <<"-", "1", "-", "5">>,
      Y2022 \o <<"-", "0", "3", "-", " ", "7">>,
      Y2022 \o <<"-", "0", "2", "-", "2", "9">>,
      Y2022 \o <<"-", "1", "3", "-", "0", "1">>,
      Y2022 \o <<"-", "0", "1", "-", "0", "1", "x">> }

\* the elements of the spending array the service may send: one row per
\* date text
Elements ==
    {[items |-> 600, quantity |-> 16800, actual_cost |-> 42, date |-> t,
      row_id |-> "15N", row_name |-> "NHS DEVON"] : t \in DateTexts}

\* DrugDetail.from_dict(data), model.py lines 66-68: type, id and name are
\* kept, any other key of the entry is left out
DrugDetailFromDict(data) ==
    [kind |-> "DrugDetail", raised |-> "none",
     value |-> [type |-> data.type, id |-> data.id, name |-> data.name]]

\* the entries of the BNF search array the service may send
BnfEntries ==
    {[type |-> "chemical", id |-> "0212000AA", name |-> "Rosuvastatin",
      section |-> "2.12"],
     [type |-> "product", id |-> "0212000AAAA", name |-> "Crestor",
      section |-> "2.12"]}

RECURSIVE SeqsUpTo(_, _)
\* the sequences over S of length at most n
SeqsUpTo(S, n) ==
    IF n = 0 THEN {<<>>}
    ELSE LET shorter == SeqsUpTo(S, n - 1)
         IN shorter \cup {Append(q, x) : q \in shorter, x \in S}

(***************************************************************************)
(* api.py: OpenPrescribingHttpApi                                          *)
(***************************************************************************)

\* the api_params arguments tried: None, {}, {add: me}, {format: csv, still: json}
ApiParamsTried ==
    { [none |-> TRUE, map |-> <<>>],
      [none |-> FALSE, map |-> <<>>],
      [none |-> FALSE, map |-> ("add" :> "me")],
      [none |-> FALSE, map |-> ("format" :> "csv" @@ "still" :> "json")] }

\* 'if api_params:', line 92: None and the empty mapping are both false
Truthy(p) == ~p.none /\ DOMAIN p.map # {}

ChainKeys(maps) == UNION {DOMAIN maps[i] : i \in 1 .. Len(maps)}

\* a lookup in which the map appended last shadows the earlier ones
ChainGetLastWins(maps, k) ==
    maps[CHOOSE i \in 1 .. Len(maps) :
            /\ k \in DOMAIN maps[i]
            /\ \A j \in (i + 1) .. Len(maps) : k \notin DOMAIN maps[j]][k]

\* collections.ChainMap.__getitem__: the first map of .maps that has the key
ChainGet(maps, k) ==
    maps[CHOOSE i \in 1 .. Len(maps) :
            /\ k \in DOMAIN maps[i]
            /\ \A j \in 1 .. (i - 1) : k \notin DOMAIN maps[j]][k]

\* lines 91-93: ChainMap({"format": "json"}) with api_params appended to .maps
ParamsChain(p) ==
    IF Truthy(p) THEN <<"format" :> "json", p.map>> ELSE <<"format" :> "json">>

\* the query string parameters session.get sends for a ChainMap: every key
\* of the chain with the value the chain looks up for it
SentParams(p) ==
    [k \in ChainKeys(ParamsChain(p)) |-> ChainGet(ParamsChain(p), k)]

\* Response.raise_for_status, line 97: raises for 4xx and 5xx
RaisesForStatus(status) == status >= 400 /\ status < 600

NetOutcomes ==
    {[kind |-> "connection_error", status |-> 0]}
        \cup {[kind |-> "response", status |-> st] : st \in {200, 404, 500}}

Request(path, p) ==
    [url |-> <<"https://openprescribing.net/api/1.0/", path>>,
     params |-> SentParams(p)]

\* a GET helper that tries once more when the request failed
SearchRetryingOnce(path, p, net) ==
    IF net.kind = "connection_error"
    THEN [requests |-> <<Request(path, p), Request(path, p)>>,
          raised |-> "ConnectionError"]
    ELSE IF RaisesForStatus(net.status)
    THEN [requests |-> <<Request(path, p), Request(path, p)>>,
          raised |-> "HTTPError"]
    ELSE [requests |-> <<Request(path, p)>>, raised |-> "none"]

\* OpenPrescribingHttpApi._search, lines 75-98, against a service that
\* answers the request with `net`
Search(path, p, net) ==
    IF net.kind = "connection_error"
    THEN [requests |-> <<Request(path, p)>>, raised |-> "ConnectionError"]
    ELSE IF RaisesForStatus(net.status)
    THEN [requests |-> <<Request(path, p)>>, raised |-> "HTTPError"]
    ELSE [requests |-> <<Request(path, p)>>, raised |-> "none"]

\* the record of a finished call
Called(method, p, net, requests, raised, result) ==
    [method |-> method, params |-> p, net |-> net, requests |-> requests,
     raised |-> raised, result |-> result, data |-> <<>>]

NoNet == [kind |-> "none", status |-> 0]

InitApi ==
    /\ ParkedRL
    /\ ParkedLB
    /\ ParkedUI
    /\ serverBody \in SeqsUpTo(Elements, MaxBody)
    /\ lastCall = [method |-> "none"]

\* query_org_location(api_params=p), lines 34-48: what the call does and
\* how it ends
QueryOrgLocationCall(p, net) ==
    LET r == Search("org_location", p, net)
    IN IF r.raised # "none"
       THEN Called("query_org_location", p, net, r.requests, r.raised, NoResult)
       ELSE Called("query_org_location", p, net, r.requests, "none",
                   [kind |-> "LocationBoundaries", raised |-> "none"])

QueryOrgLocation(p, net) ==
    /\ lastCall' = QueryOrgLocationCall(p, net)
    /\ UNCHANGED serverBody
    /\ UNCHANGED notApi

\* query_spending_by_location(api_params=p), lines 50-63, the service
\* answering a successful request with the array `body`
QuerySpendingByLocationCall(p, net, body) ==
    LET r == Search("spending_by_sicbl", p, net)
        parsed == SpendingFromJson(body)
    IN IF r.raised # "none"
       THEN Called("query_spending_by_location", p, net, r.requests,
                   r.raised, NoResult)
       ELSE IF parsed.raised # "none"
       THEN Called("query_spending_by_location", p, net, r.requests,
                   parsed.raised, NoResult)
       ELSE Called("query_spending_by_location", p, net, r.requests,
                   "none", parsed)

QuerySpendingByLocation(p, net) ==
    /\ lastCall' = QuerySpendingByLocationCall(p, net, serverBody)
    /\ UNCHANGED serverBody
    /\ UNCHANGED notApi

\* the body that line 67 keeps as a comment: the query is sent to `spending`
QuerySpendingByCodeSearching(p) ==
    Called("query_spending_by_code", p, NoNet, <<Request("spending", p)>>,
           "none", [kind |-> "Response", raised |-> "none"])

\* query_spending_by_code(api_params=p), lines 65-68
QuerySpendingByCodeCall(p) ==
    Called("query_spending_by_code", p, NoNet, <<>>, "NotImplementedError",
           NoResult)

QuerySpendingByCode(p) ==
    /\ lastCall' = QuerySpendingByCodeCall(p)
    /\ UNCHANGED serverBody
    /\ UNCHANGED notApi

\* query_drug_details(api_params=p), lines 70-73, the service answering a
\* successful request with an empty array
QueryDrugDetailsCall(p, net) ==
    LET r == Search("bnf_code", p, net)
    IN IF r.raised # "none"
       THEN Called("query_drug_details", p, net, r.requests, r.raised, NoResult)
       ELSE Called("query_drug_details", p, net, r.requests, "none",
                   [kind |-> "list", raised |-> "none", value |-> <<>>])

QueryDrugDetails(p, net) ==
    /\ lastCall' = QueryDrugDetailsCall(p, net)
    /\ UNCHANGED serverBody
    /\ UNCHANGED notApi

\* LocationSpend.from_dict applied to one element of the array
CallFromDict(i) ==
    /\ LET r == FromDict(serverBody[i])
       IN lastCall' =
            [Called("from_dict", [none |-> TRUE, map |-> <<>>], NoNet, <<>>,
                    r.raised, IF r.raised = "none" THEN r ELSE NoResult)
                EXCEPT !.data = serverBody[i]]
    /\ UNCHANGED serverBody
    /\ UNCHANGED notApi

(***************************************************************************)
(* model.py: the frozen dataclasses LocationSpend and DrugDetail           *)
(***************************************************************************)

\* only LocationSpend is declared frozen
FrozenClassesSpendOnly == {"LocationSpend"}

\* @dataclass(frozen=True), model.py lines 16 and 60
FrozenClasses == {"LocationSpend", "DrugDetail"}

\* obj.f = v: the __setattr__ a frozen dataclass generates raises
\* FrozenInstanceError before anything is stored; `after` is the fields of
\* obj when the statement has ended
SetAttr(obj, f, v) ==
    IF obj.kind \in FrozenClasses
    THEN [raised |-> "FrozenInstanceError", after |-> obj.value]
    ELSE [raised |-> "none", after |-> [obj.value EXCEPT ![f] = v]]

\* the instances that from_dict constructs from the elements of the spending
\* array and from the entries of the BNF search array
Constructed ==
    {FromDict(serverBody[i]) :
        i \in {j \in 1 .. Len(serverBody) : FromDict(serverBody[j]).raised = "none"}}
        \cup {DrugDetailFromDict(d) : d \in BnfEntries}

AssignedValues == {1000}

\* the statement obj.f = v on a constructed instance, as in
\* tests/test_model.py lines 43-45 and 78-83
Assign(obj, f, v) ==
    /\ LET r == SetAttr(obj, f, v)
       IN lastCall' = [method |-> "__setattr__", target |-> obj, field |-> f,
                       value |-> v, raised |-> r.raised, after |-> r.after]
    /\ UNCHANGED serverBody
    /\ UNCHANGED notApi

(***************************************************************************)
(* api.py: HttpApiDataProvider                                             *)
(***************************************************************************)
ChemicalCodes == {"0212000AA"}
LocationCodes == {"15N", "99C"}
QueryTexts == {"rosu"}

\* how drug_details is called: without `exact`, with exact=True, exact=False
ExactArgs == {"omitted", "True", "False"}

\* 'exact: bool = False', line 185
ExactValue(e) == IF e = "omitted" THEN FALSE ELSE e = "True"

\* the text of the flag as Python prints a bool
ExactTextAsPythonBool(e) == IF ExactValue(e) THEN "True" ELSE "False"

\* '"true" if exact else "false"', line 198
ExactText(e) == IF ExactValue(e) THEN "true" ELSE "false"

\* a provider method that returns what its calls on the API client gave:
\* the last call's result, or the error the first failing call raised
Provided(method, args, apiCalls) ==
    [method |-> method, args |-> args, calls |-> apiCalls,
     raised |-> apiCalls[Len(apiCalls)].raised,
     result |-> apiCalls[Len(apiCalls)].result]

\* HttpApiDataProvider.location_boundaries(), lines 162-170
LocationBoundariesCall(net) ==
    Provided("location_boundaries", <<>>,
             <<QueryOrgLocationCall(
                  [none |-> FALSE, map |-> ("org_type" :> "ccg")], net)>>)

\* HttpApiDataProvider.chemical_spending_for_location(chemical, location),
\* lines 172-183
ChemicalSpendingForLocationCall(chemical, location, net, body) ==
    Provided("chemical_spending_for_location", <<chemical, location>>,
             <<QuerySpendingByLocationCall(
                  [none |-> FALSE,
                   map |-> ("code" :> chemical @@ "org" :> location)],
                  net, body)>>)

\* HttpApiDataProvider.drug_details(query, exact), lines 185-199
DrugDetailsCall(query, e, net) ==
    Provided("drug_details", <<query, e>>,
             <<QueryDrugDetailsCall(
                  [none |-> FALSE,
                   map |-> ("q" :> query @@ "exact" :> ExactText(e))],
                  net)>>)

ProviderLocationBoundaries(net) ==
    /\ lastCall' = LocationBoundariesCall(net)
    /\ UNCHANGED serverBody
    /\ UNCHANGED notApi

ProviderChemicalSpendingForLocation(chemical, location, net) ==
    /\ lastCall' = ChemicalSpendingForLocationCall(chemical, location, net,
                                                   serverBody)
    /\ UNCHANGED serverBody
    /\ UNCHANGED notApi

ProviderDrugDetails(query, e, net) ==
    /\ lastCall' = DrugDetailsCall(query, e, net)
    /\ UNCHANGED serverBody
    /\ UNCHANGED notApi

NextApi ==
    \/ \E p \in ApiParamsTried : \E net \in NetOutcomes : QueryOrgLocation(p, net)
    \/ \E p \in ApiParamsTried : \E net \in NetOutcomes : QuerySpendingByLocation(p, net)
    \/ \E p \in ApiParamsTried : QuerySpendingByCode(p)
    \/ \E p \in ApiParamsTried : \E net \in NetOutcomes : QueryDrugDetails(p, net)
    \/ \E i \in 1 .. Len(serverBody) : CallFromDict(i)
    \/ \E obj \in Constructed : \E f \in DOMAIN obj.value :
       \E v \in AssignedValues : Assign(obj, f, v)
    \/ \E net \in NetOutcomes : ProviderLocationBoundaries(net)
    \/ \E c \in ChemicalCodes : \E l \in LocationCodes : \E net \in NetOutcomes :
          ProviderChemicalSpendingForLocation(c, l, net)
    \/ \E q \in QueryTexts : \E e \in ExactArgs : \E net \in NetOutcomes :
          ProviderDrugDetails(q, e, net)

SpecApi == InitApi /\ [][NextApi]_vars

(***************************************************************************)
(* Properties of the API client and of LocationSpend parsing               *)
(***************************************************************************)
NetworkMethods ==
    {"query_org_location", "query_spending_by_location", "query_drug_details"}

\* the mapping the caller supplied, empty for None
Supplied(p) == IF p.none THEN <<>> ELSE p.map

\* C1 as stated: the parameters sent are {format: json} overlaid by the
\* caller's mapping, the caller's value winning for every key.
CallerParamsOverrideDefaults ==
    lastCall.method \in NetworkMethods =>
        \A i \in 1 .. Len(lastCall.requests) :
            LET sent == lastCall.requests[i].params
                P == Supplied(lastCall.params)
            IN /\ DOMAIN sent = {"format"} \cup DOMAIN P
               /\ \A k \in DOMAIN P : sent[k] = P[k]
               /\ "format" \notin DOMAIN P => sent["format"] = "json"

\* C1 amended: the caller's value is sent for every key except `format`,
\* for which the base default json is sent even when the caller supplies
\* another value.
CallerParamsAddedFormatKept ==
    lastCall.method \in NetworkMethods =>
        \A i \in 1 .. Len(lastCall.requests) :
            LET sent == lastCall.requests[i].params
                P == Supplied(lastCall.params)
            IN /\ DOMAIN sent = {"format"} \cup DOMAIN P
               /\ \A k \in DOMAIN P \ {"format"} : sent[k] = P[k]
               /\ sent["format"] = "json"

\* C1 witness: a call with {format: csv, still: json} has sent format=json
\* and still=json.
CsvRequestedJsonSent ==
    /\ lastCall.method \in NetworkMethods
    /\ "format" \in DOMAIN Supplied(lastCall.params)
    /\ Supplied(lastCall.params)["format"] = "csv"
    /\ Len(lastCall.requests) = 1
    /\ lastCall.requests[1].params = ("format" :> "json" @@ "still" :> "json")

IsoDate(t) ==
    /\ Len(t) = 10
    /\ \A i \in {1, 2, 3, 4, 6, 7, 9, 10} : t[i] \in Digits
    /\ t[5] = "-"
    /\ t[8] = "-"
    /\ Num(SubSeq(t, 1, 4)) >= 1
    /\ Num(SubSeq(t, 6, 7)) \in 1 .. 12
    /\ Num(SubSeq(t, 9, 10)) \in
          1 .. DaysInMonth(Num(SubSeq(t, 1, 4)), Num(SubSeq(t, 6, 7)))

DigitChar(n) ==
    CASE n = 0 -> "0" [] n = 1 -> "1" [] n = 2 -> "2" [] n = 3 -> "3"
      [] n = 4 -> "4" [] n = 5 -> "5" [] n = 6 -> "6" [] n = 7 -> "7"
      [] n = 8 -> "8" [] n = 9 -> "9"

\* the ways of writing n < 100 with one or two digits
Written(n) ==
    {<<DigitChar(n \div 10), DigitChar(n % 10)>>}
        \cup (IF n < 10 THEN {<<DigitChar(n)>>} ELSE {})

\* the text is a four-digit year, a month and a day of that month, each
\* written with one or two digits (a one-digit day also after a space),
\* joined by '-'
LooseDate(t) ==
    /\ Len(t) >= 4
    /\ \A i \in 1 .. 4 : t[i] \in Digits
    /\ Num(SubSeq(t, 1, 4)) >= 1
    /\ \E m \in 1 .. 12 :
       \E d \in 1 .. DaysInMonth(Num(SubSeq(t, 1, 4)), m) :
       \E mt \in Written(m) :
       \E dt \in Written(d) \cup (IF d < 10 THEN {<<" ", DigitChar(d)>>} ELSE {}) :
          t = SubSeq(t, 1, 4) \o <<"-">> \o mt \o <<"-">> \o dt

\* C9 as stated: from_dict fails with a format error whenever the date text
\* is not a valid YYYY-MM-DD date, and a spending query whose response holds
\* such an element fails as a whole.
NonIsoDateRejected ==
    /\ (lastCall.method = "from_dict" /\ ~IsoDate(lastCall.data.date)) =>
          /\ lastCall.raised = "ValueError"
          /\ lastCall.result = NoResult
    /\ ( /\ lastCall.method = "query_spending_by_location"
         /\ lastCall.net.kind = "response"
         /\ lastCall.net.status = 200
         /\ \E i \in 1 .. Len(serverBody) : ~IsoDate(serverBody[i].date) ) =>
          /\ lastCall.raised = "ValueError"
          /\ lastCall.result = NoResult

\* C9 amended: from_dict fails with a format error, producing no record,
\* exactly when the date text is not a year, month and day of the loose form
\* above (so 2022-1-5 is parsed, not rejected); a spending query whose
\* response holds an element that from_dict rejects fails as a whole with no
\* partial list, and otherwise returns one record per element.
UnparsableDateRejected ==
    /\ lastCall.method = "from_dict" =>
          IF LooseDate(lastCall.data.date)
          THEN /\ lastCall.raised = "none"
               /\ lastCall.result.kind = "LocationSpend"
          ELSE /\ lastCall.raised = "ValueError"
               /\ lastCall.result = NoResult
    /\ ( /\ lastCall.method = "query_spending_by_location"
         /\ lastCall.net.kind = "response"
         /\ lastCall.net.status = 200 ) =>
          IF \E i \in 1 .. Len(serverBody) : ~LooseDate(serverBody[i].date)
          THEN /\ lastCall.raised = "ValueError"
               /\ lastCall.result = NoResult
          ELSE /\ lastCall.raised = "none"
               /\ lastCall.result.kind = "list"
               /\ Len(lastCall.result.value) = Len(serverBody)

\* C9 witness: a spending query whose two-element response has a good first
\* date and a malformed second one has failed without a result.
SecondElementMalformedQueryFailed ==
    /\ lastCall.method = "query_spending_by_location"
    /\ lastCall.net.status = 200
    /\ Len(serverBody) = 2
    /\ IsoDate(serverBody[1].date)
    /\ ~LooseDate(serverBody[2].date)
    /\ lastCall.raised = "ValueError"
    /\ lastCall.result = NoResult

\* C12: every assignment to a field of a constructed LocationSpend or
\* DrugDetail fails with an error (FrozenInstanceError) and the record keeps
\* the field values it had at construction.
FrozenRecordsRejectAssignment ==
    lastCall.method = "__setattr__" =>
        /\ lastCall.raised = "FrozenInstanceError"
        /\ lastCall.after = lastCall.target.value

\* C12 witness: the assignment of test_drug_detail_frostiness, to the id of a
\* DrugDetail, has raised and left the id as constructed.
DrugDetailIdAssignmentRejected ==
    /\ lastCall.method = "__setattr__"
    /\ lastCall.target.kind = "DrugDetail"
    /\ lastCall.field = "id"
    /\ lastCall.raised = "FrozenInstanceError"
    /\ lastCall.after.id = "0212000AA"

\* the calendar date that a YYYY-MM-DD text denotes
IsoValue(t) ==
    [year |-> Num(SubSeq(t, 1, 4)),
     month |-> Num(SubSeq(t, 6, 7)),
     day |-> Num(SubSeq(t, 9, 10))]

\* C13: a query_spending_by_location that returns gives one LocationSpend
\* per element of the response array, in the order of the array; the i-th
\* record has the items, quantity, actual_cost, row_id and row_name of the
\* i-th element, and its date is the calendar date the element's YYYY-MM-DD
\* text denotes. A successful response whose dates are all YYYY-MM-DD texts
\* does return.
SpendingRecordsMirrorResponse ==
    /\ ( /\ lastCall.method = "query_spending_by_location"
         /\ lastCall.raised = "none" ) =>
          LET v == lastCall.result.value
          IN /\ lastCall.result.kind = "list"
             /\ Len(v) = Len(serverBody)
             /\ \A i \in 1 .. Len(serverBody) :
                   /\ DOMAIN v[i] = DOMAIN serverBody[i]
                   /\ \A f \in DOMAIN serverBody[i] \ {"date"} :
                         v[i][f] = serverBody[i][f]
                   /\ IsoDate(serverBody[i].date) =>
                         v[i].date = IsoValue(serverBody[i].date)
    /\ ( /\ lastCall.method = "query_spending_by_location"
         /\ lastCall.net.kind = "response"
         /\ lastCall.net.status = 200
         /\ \A i \in 1 .. Len(serverBody) : IsoDate(serverBody[i].date) ) =>
          lastCall.raised = "none"

\* C13 witness: a response of two elements, the later date first, has been
\* returned as two records in that order.
TwoElementsReturnedInResponseOrder ==
    /\ lastCall.method = "query_spending_by_location"
    /\ lastCall.raised = "none"
    /\ Len(serverBody) = 2
    /\ serverBody[1].date = <<"2", "0", "2", "4", "-", "0", "2", "-", "2", "9">>
    /\ serverBody[2].date = Y2022 \o <<"-", "0", "1", "-", "0", "1">>
    /\ Len(lastCall.result.value) = 2
    /\ lastCall.result.value[1].date = [year |-> 2024, month |-> 2, day |-> 29]
    /\ lastCall.result.value[2].date = [year |-> 2022, month |-> 1, day |-> 1]

\* the api_params a provider method must pass, by method and arguments
ExpectedDelegation(method, args) ==
    CASE method = "location_boundaries" ->
           [to |-> "query_org_location", map |-> ("org_type" :> "ccg")]
      [] method = "chemical_spending_for_location" ->
           [to |-> "query_spending_by_location",
            map |-> ("code" :> args[1] @@ "org" :> args[2])]
      [] method = "drug_details" ->
           [to |-> "query_drug_details",
            map |-> ("q" :> args[1] @@
                     "exact" :> (IF args[2] = "True" THEN "true" ELSE "false"))]

ProviderMethods ==
    {"location_boundaries", "chemical_spending_for_location", "drug_details"}

\* C14: a provider method makes exactly one call on the API client, to the
\* matching query method, with exactly {org_type: ccg}, {code: c, org: l} or
\* {q: q, exact: "true"/"false"} ("false" also when exact is omitted), and
\* ends as that call ended: same result, same error.
ProviderDelegatesExactly ==
    lastCall.method \in ProviderMethods =>
        LET want == ExpectedDelegation(lastCall.method, lastCall.args)
        IN /\ Len(lastCall.calls) = 1
           /\ lastCall.calls[1].method = want.to
           /\ lastCall.calls[1].params = [none |-> FALSE, map |-> want.map]
           /\ lastCall.result = lastCall.calls[1].result
           /\ lastCall.raised = lastCall.calls[1].raised

\* C14 witness: drug_details called without `exact` has passed exact=false
\* and returned the client's list.
DrugDetailsWithoutExactSentFalse ==
    /\ lastCall.method = "drug_details"
    /\ lastCall.args[2] = "omitted"
    /\ lastCall.calls[1].params.map["exact"] = "false"
    /\ lastCall.raised = "none"
    /\ lastCall.result.kind = "list"

\* C15: query_spending_by_code fails with NotImplementedError for every
\* argument, also for none, returns nothing and issues no HTTP request.
TotalSpendingNotImplemented ==
    lastCall.method = "query_spending_by_code" =>
        /\ lastCall.raised = "NotImplementedError"
        /\ lastCall.requests = <<>>
        /\ lastCall.result = NoResult

\* C15 witness: query_spending_by_code() without argument has failed.
TotalSpendingWithoutArgumentFailed ==
    /\ lastCall.method = "query_spending_by_code"
    /\ lastCall.params.none
    /\ lastCall.raised = "NotImplementedError"

\* the requests a finished operation has issued, those of the client calls
\* of a provider method included
RequestsIssued ==
    IF lastCall.method \in NetworkMethods THEN lastCall.requests
    ELSE IF lastCall.method \in ProviderMethods
    THEN lastCall.calls[1].requests
    ELSE <<>>

\* the api_params behind the requests issued
ParamsGiven ==
    IF lastCall.method \in ProviderMethods THEN lastCall.calls[1].params
    ELSE lastCall.params

\* C17: every GET request of _search carries format=json whatever the caller
\* supplies; without caller parameters the parameters sent are exactly
\* {format: json}, and with caller parameters P they are {format: json} and
\* every key of P other than format at the caller's value.
EveryRequestAsksForJson ==
    \A i \in 1 .. Len(RequestsIssued) :
        LET sent == RequestsIssued[i].params
            P == Supplied(ParamsGiven)
        IN /\ "format" \in DOMAIN sent
           /\ sent["format"] = "json"
           /\ DOMAIN P = {} => sent = ("format" :> "json")
           /\ sent = [k \in DOMAIN P \cup {"format"} |->
                         IF k = "format" THEN "json" ELSE P[k]]

\* C17 witness: a query without api_params has sent exactly {format: json}.
NoParamsSentOnlyFormat ==
    /\ lastCall.method \in NetworkMethods
    /\ lastCall.params.none
    /\ Len(lastCall.requests) = 1
    /\ lastCall.requests[1].params = ("format" :> "json")

(***************************************************************************)
(* ui.py: DrugSearchBox inside OpenPrescribingDataExplorer. Texts are      *)
(* sequences of one-character strings; the empty text and None are <<>>.   *)
(* The handlers run one after another on the single thread that delivers   *)
(* widget events, so the RateLimiter's lock is always free when taken.     *)
(***************************************************************************)

\* RateLimiter(), util.py line 17: calls=1, period=1
DefaultCalls == 1
DefaultPeriod == 1

\* 'len(user_entered_input.strip()) < 3', ui.py line 473
MinQueryLength == 3

DrugId == <<"A", "B", "C", "1">>

\* what the user may type into the text field
Texts ==
    { <<>>,
      <<" ", "A", "B", " ">>,
      <<"A", "B", "C">>,
      DrugId,
      DrugId \o <<"X">> }

\* the codes of the locations drawn on the map
MapCodes == {<<"1", "5", "N">>, <<"9", "9", "C">>}

RECURSIVE Strip(_)
\* str.strip(): leading and trailing blanks removed
Strip(v) ==
    IF v = <<>> THEN v
    ELSE IF v[1] = " " THEN Strip(Tail(v))
    ELSE IF v[Len(v)] = " " THEN Strip(SubSeq(v, 1, Len(v) - 1))
    ELSE v

\* how data_provider.drug_details may end: with an error, or with the ids of
\* the chemicals and products found
ProviderAnswers ==
    { [raised |-> TRUE, ids |-> <<>>],
      [raised |-> FALSE, ids |-> <<>>],
      [raised |-> FALSE, ids |-> <<DrugId>>] }

\* DrugSearchBox.is_valid, lines 430-437
IsValid == valid

\* DrugSearchBox.get_selected_drug_id, lines 416-428
GetSelectedDrugId == IF ~IsValid THEN <<>> ELSE text

\* 'user_entered_input in self.dropdown.options', line 473: the options are
\* (label, id) pairs (line 478), which a text never equals
InOptions(v) == FALSE

\* the RateLimiter wrapper, util.py lines 36-46, run at clock value t by the
\* only thread: the new counter and window start, and whether the wrapped
\* function is called
Limiter(t) ==
    LET expired == WindowExpired(t, last_reset, period)
        n == (IF expired THEN 0 ELSE number_of_calls) + 1
    IN [number_of_calls |-> n,
        last_reset |-> IF expired THEN t ELSE last_reset,
        admitted |-> ~OverLimit(n, calls)]

\* the body of _change_handler, lines 469-484, for the new text v while the
\* dropdown's value is dv and drug_details ends as res
ChangeHandlerBody(v, dv, res) ==
    IF Len(Strip(v)) < MinQueryLength \/ InOptions(v)
    THEN [valid |-> FALSE, options |-> options, dropdownValue |-> <<>>,
          shown |-> FALSE, raised |-> FALSE]
    ELSE IF res.raised
    THEN [valid |-> FALSE, options |-> options, dropdownValue |-> dv,
          shown |-> shown, raised |-> TRUE]
    ELSE [valid |-> FALSE, options |-> res.ids, dropdownValue |-> <<>>,
          shown |-> TRUE, raised |-> FALSE]

\* the observer of text.value (line 410) called for the new text v: the
\* wrapper of @RateLimiter() (line 454) and, when it admits the call, the body
ChangeHandler(v, dv, res) ==
    LET w == Limiter(now)
    IN IF w.admitted
       THEN [limiter |-> w, ui |-> ChangeHandlerBody(v, dv, res)]
       ELSE [limiter |-> w,
             ui |-> [valid |-> valid, options |-> options,
                     dropdownValue |-> dv, shown |-> shown,
                     raised |-> FALSE]]

\* OpenPrescribingDataExplorer.is_submittable, lines 69-75, for a location
\* code and a drug id
IsSubmittable(location, drug) == location # <<>> /\ drug # <<>>

\* LocationBoundariesMap.get_location_code, lines 183-195
GetLocationCode == IF selectedLayer.id = 0 THEN <<>> ELSE locationCode

\* a setter that adds the new layer and keeps the one selected before
LayersAfterSetKeepingOld(layers, old, new) == layers \cup {new}

\* the selected_layer setter, lines 175-181: the layer selected before, if
\* any, is removed from the map and the new one is added
LayersAfterSet(layers, old, new) ==
    (IF old.id # 0 THEN layers \ {old} ELSE layers) \cup {new}

\* a code that is no key of the boundaries
UnknownCode == <<"Z", "Z", "Z">>

\* how data_provider.chemical_spending_for_location may end: with an error,
\* or with the list of records found
SpendingAnswers ==
    { [raised |-> TRUE, data |-> <<>>],
      [raised |-> FALSE, data |-> <<>>],
      [raised |-> FALSE, data |-> <<"2022-01-01">>] }

\* 'if not (location_code or drug_code)', ui.py line 82
NothingToSearch(location_code, drug_code) ==
    ~(location_code # <<>> \/ drug_code # <<>>)

InitUI ==
    /\ ParkedLB
    /\ ParkedApi
    /\ ParkedUI
    /\ callsArg = DefaultCalls
    /\ calls = ClampCalls(callsArg)
    /\ period = DefaultPeriod
    /\ number_of_calls = 0
    /\ now = 0
    /\ last_reset = now
    /\ lockOwner = 0
    /\ lockCount = 0
    /\ stack = [t \in Threads |-> <<>>]
    /\ invoked = 0
    /\ log = <<>>
    /\ resets = 0
    /\ execAt = [s \in 0 .. MaxTime |-> 0]

\* the user changes the text field to v: text.value is set and its observer
\* runs
EditText(v, res) ==
    /\ v # text
    /\ number_of_calls < MaxCounted
    /\ LET h == ChangeHandler(v, dropdownValue, res)
       IN /\ text' = v
          /\ number_of_calls' = h.limiter.number_of_calls
          /\ last_reset' = h.limiter.last_reset
          /\ valid' = h.ui.valid
          /\ options' = h.ui.options
          /\ dropdownValue' = h.ui.dropdownValue
          /\ shown' = h.ui.shown
    /\ editedSinceSelect' = TRUE
    /\ UNCHANGED <<layerVars, searchDisabled, searchVars>>
    /\ UNCHANGED notUI

\* the user picks `item` in the dropdown: dropdown.value is set and
\* _select_handler, lines 486-495, runs; its assignment to text.value calls
\* the observer of the text when the text changes, and an error of that
\* observer ends the handler there
SelectItem(item, res) ==
    /\ shown
    /\ \E i \in 1 .. Len(options) : options[i] = item
    /\ item # dropdownValue
    /\ number_of_calls < MaxCounted
    /\ LET h == IF item # text
                THEN ChangeHandler(item, item, res)
                ELSE [limiter |-> [number_of_calls |-> number_of_calls,
                                   last_reset |-> last_reset,
                                   admitted |-> FALSE],
                      ui |-> [valid |-> valid, options |-> options,
                              dropdownValue |-> item, shown |-> shown,
                              raised |-> FALSE]]
       IN /\ text' = item
          /\ number_of_calls' = h.limiter.number_of_calls
          /\ last_reset' = h.limiter.last_reset
          /\ options' = h.ui.options
          /\ IF h.ui.raised
             THEN /\ valid' = h.ui.valid
                  /\ dropdownValue' = h.ui.dropdownValue
                  /\ shown' = h.ui.shown
                  /\ UNCHANGED <<searchDisabled, editedSinceSelect>>
             ELSE /\ valid' = TRUE
                  /\ dropdownValue' = <<>>
                  /\ shown' = FALSE
                  /\ searchDisabled' = ~IsSubmittable(GetLocationCode, item)
                  /\ editedSinceSelect' = FALSE
    /\ UNCHANGED <<layerVars, searchVars>>
    /\ UNCHANGED notUI

\* LocationBoundariesMap.select_location(code), lines 197-205, for a code of
\* the boundaries: a new layer is built from boundaries[code] and given to
\* the selected_layer setter
SelectLocationKnown(code) ==
    LET layer == [id |-> layersBuilt + 1, data |-> code]
    IN /\ layersBuilt' = layersBuilt + 1
       /\ mapLayers' = LayersAfterSet(mapLayers, selectedLayer, layer)
       /\ selectedLayer' = layer
       /\ locationCode' = code
       /\ lastSelected' = code

\* select_location called directly, as the tests do; for a code that is no
\* key of the boundaries, boundaries[code] raises KeyError before anything
\* is built or assigned
SelectLocation(code) ==
    /\ IF code \in MapCodes
       THEN /\ layersBuilt < MaxLayers
            /\ SelectLocationKnown(code)
       ELSE UNCHANGED layerVars
    /\ UNCHANGED <<boxVars, searchDisabled, searchVars, number_of_calls,
                   last_reset>>
    /\ UNCHANGED notUI

\* the user clicks a location of the map: LocationBoundariesMap._click_handler,
\* lines 220-225
MapClick(code) ==
    /\ layersBuilt < MaxLayers
    /\ SelectLocationKnown(code)
    /\ searchDisabled' = ~IsSubmittable(code, GetSelectedDrugId)
    /\ UNCHANGED <<boxVars, searchVars, number_of_calls, last_reset>>
    /\ UNCHANGED notUI

\* the search button is clicked, by the user or by search_button.click():
\* OpenPrescribingDataExplorer._click_handler, lines 77-97, the data provider
\* ending as `res`
SearchClick(res) ==
    /\ LET location_code == GetLocationCode
           drug_code == GetSelectedDrugId
       IN IF NothingToSearch(location_code, drug_code)
          THEN /\ statusMessage' = [kind |-> "Nothing to search for", n |-> 0]
               /\ lastSearch' = [clicked |-> TRUE, location |-> location_code,
                                 drug |-> drug_code, called |-> FALSE,
                                 chemical |-> <<>>, org |-> <<>>]
               /\ UNCHANGED <<searchDisabled, plotterData, plotterShown>>
          ELSE /\ lastSearch' = [clicked |-> TRUE, location |-> location_code,
                                 drug |-> drug_code, called |-> TRUE,
                                 chemical |-> drug_code, org |-> location_code]
               /\ IF res.raised
                  THEN /\ searchDisabled' = TRUE
                       /\ statusMessage' = [kind |-> "Fetching the data...",
                                            n |-> 0]
                       /\ UNCHANGED <<plotterData, plotterShown>>
                  ELSE /\ plotterData' = res.data
                       /\ plotterShown' = (res.data # <<>>)
                       /\ statusMessage' = [kind |-> "Found results",
                                            n |-> Len(res.data)]
                       /\ searchDisabled' = FALSE
    /\ UNCHANGED <<boxVars, layerVars, number_of_calls, last_reset>>
    /\ UNCHANGED notUI

NextUI ==
    \/ Tick
    \/ \E v \in Texts : \E res \in ProviderAnswers : EditText(v, res)
    \/ \E item \in {DrugId} : \E res \in ProviderAnswers : SelectItem(item, res)
    \/ \E code \in MapCodes \cup {UnknownCode} : SelectLocation(code)
    \/ \E code \in MapCodes : MapClick(code)
    \/ \E res \in SpendingAnswers : SearchClick(res)

SpecUI == InitUI /\ [][NextUI]_vars

(***************************************************************************)
(* Properties of DrugSearchBox                                             *)
(***************************************************************************)

\* C20: once the user has edited the text, and until an item is next selected
\* in the dropdown, is_valid() is False and get_selected_drug_id() returns
\* the empty string, whatever the order and timing of edits and selections.
EditResetsValidity ==
    editedSinceSelect =>
        /\ ~IsValid
        /\ GetSelectedDrugId = <<>>

(***************************************************************************)
(* Properties of OpenPrescribingDataExplorer and LocationBoundariesMap     *)
(***************************************************************************)

\* C21: a click of the search button calls chemical_spending_for_location
\* only when the location code and the drug id are both non-empty; when
\* either is empty it sets the 'Nothing to search for' message, calls no
\* data provider and leaves the plotter data as it was.
ClickSearchesOnlyWhenBothSet ==
    [][\A res \in SpendingAnswers :
          SearchClick(res) =>
              IF GetLocationCode # <<>> /\ GetSelectedDrugId # <<>>
              THEN lastSearch'.called
              ELSE /\ ~lastSearch'.called
                   /\ statusMessage'.kind = "Nothing to search for"
                   /\ plotterData' = plotterData]_vars

\* C22: before any selection the map has no highlight layer and
\* get_location_code() is empty; after select_location calls the map holds
\* exactly one highlight layer, the one built last, for the code selected
\* last, and get_location_code() returns that code.
OneHighlightForLastSelection ==
    IF layersBuilt = 0
    THEN /\ mapLayers = {}
         /\ GetLocationCode = <<>>
    ELSE /\ Cardinality(mapLayers) = 1
         /\ mapLayers = {selectedLayer}
         /\ selectedLayer.id = layersBuilt
         /\ selectedLayer.data = lastSelected
         /\ GetLocationCode = lastSelected

\* C22 witness: a second location has been selected after a first one and is
\* the only highlight on the map.
SecondSelectionReplacedFirst ==
    /\ layersBuilt = 2
    /\ lastSelected = <<"9", "9", "C">>
    /\ mapLayers = {[id |-> 2, data |-> <<"9", "9", "C">>]}
    /\ GetLocationCode = <<"9", "9", "C">>

\* C24: whenever the search button is enabled, a location is selected and
\* the drug search box holds a valid selected drug id.
EnabledButtonMeansSubmittable ==
    ~searchDisabled => IsSubmittable(GetLocationCode, GetSelectedDrugId)

====
